---- MODULE Spec2Model ----
(***************************************************************************)
(* Model of the Pharma-Platform validation layer:                          *)
(*   - apps/orders/models.py         Order.clean / Order.save              *)
(*   - apps/prescriptions/models.py  Prescription.clean / .save            *)
(*   - apps/prescriptions/validators.py  the upload validation pipeline    *)
(* Strings whose content the code inspects (strip(), splitext(), lower())  *)
(* are sequences of one-character strings.                                 *)
(***************************************************************************)
EXTENDS Integers, Sequences, FiniteSets, TLC

VARIABLES presc, orders, last, sess, file, pos, res,
          fname, sout, calls, clock, item, iout,
          items, users, pharmacies, medicines,
          cache, served, denied, resp, reqs

vars == <<presc, orders, last, sess, file, pos, res,
          fname, sout, calls, clock, item, iout,
          items, users, pharmacies, medicines,
          cache, served, denied, resp, reqs>>

dbVars == <<presc, orders, last, sess>>
fileVars == <<file, pos, res>>
nameVars == <<fname, sout>>
pathVars == <<calls, clock>>
itemVars == <<item, iout>>
relVars == <<items, users, pharmacies, medicines>>
rateVars == <<cache, served, denied, resp, reqs>>
utilVars == <<nameVars, pathVars, itemVars, relVars, rateVars>>

(***************************************************************************)
(* Bounds                                                                  *)
(***************************************************************************)
NumPrescriptions == 1
NumOrders == 1
NumSessions == 2

PrescriptionIds == 1..NumPrescriptions
OrderIds == 1..NumOrders
Sessions == 1..NumSessions

\* Python's None for a primary key or a foreign key; a missing table row.
None == 0
NoRow == [status |-> "no_row"]

(***************************************************************************)
(* Text helpers                                                            *)
(***************************************************************************)
Whitespace == {" ", "\t", "\n"}

RECURSIVE LStrip(_)
LStrip(s) ==
    IF s = <<>> THEN s
    ELSE IF Head(s) \in Whitespace THEN LStrip(Tail(s)) ELSE s

RECURSIVE RStrip(_)
RStrip(s) ==
    IF s = <<>> THEN s
    ELSE IF s[Len(s)] \in Whitespace THEN RStrip(SubSeq(s, 1, Len(s) - 1)) ELSE s

\* str.strip()
Strip(s) == RStrip(LStrip(s))

\* `not s or not s.strip()`
IsBlank(s) == s = <<>> \/ Strip(s) = <<>>

\* Values offered for rejection_reason and tracking_number.
Texts == { <<>>, <<" ">>, <<"o", "k">>, <<" ", "o", "k", "\n">> }

(***************************************************************************)
(* Status enumerations                                                     *)
(***************************************************************************)
PENDING_VERIFICATION == "pending_verification"
VERIFIED == "verified"
REJECTED == "rejected"
PrescriptionStatus == {PENDING_VERIFICATION, VERIFIED, REJECTED}

PLACED == "placed"
CONFIRMED == "confirmed"
SHIPPED == "shipped"
DELIVERED == "delivered"
OrderStatus == {PLACED, CONFIRMED, SHIPPED, DELIVERED}

(***************************************************************************)
(* Prescription.clean                                                      *)
(***************************************************************************)
MaxPathLen == 500

\* clean() reads prescription_image_path only through its truth value and
\* len(): the field is held as the length of the string.  Values offered:
\* empty, at the limit, over it.
Paths == { 0, MaxPathLen, MaxPathLen + 1 }

PrescriptionInstances ==
    [status : PrescriptionStatus, rejection_reason : Texts,
     prescription_image_path : Paths]

PathErrors(self) ==
    IF self.prescription_image_path = 0 THEN {"prescription_image_path"}
    ELSE IF self.prescription_image_path > MaxPathLen
         THEN {"prescription_image_path"}
         ELSE {}

ReasonErrorsNoElse(self) ==
    IF self.status = REJECTED /\ IsBlank(self.rejection_reason)
    THEN {"rejection_reason"}
    ELSE {}

ReasonErrors(self) ==
    IF self.status = REJECTED
    THEN (IF IsBlank(self.rejection_reason) THEN {"rejection_reason"} ELSE {})
    ELSE (IF self.rejection_reason # <<>> /\ Strip(self.rejection_reason) # <<>>
          THEN {"rejection_reason"} ELSE {})

PrescriptionTransitionErrorsRejectedOnly(self, pk, table) ==
    IF pk # None /\ table[pk] # NoRow
    THEN IF table[pk].status = REJECTED /\ self.status = PENDING_VERIFICATION
         THEN {"status"}
         ELSE {}
    ELSE {}

\* `if self.pk:` ... Prescription.objects.get(pk=self.pk) ... DoesNotExist: pass
PrescriptionTransitionErrors(self, pk, table) ==
    IF pk # None /\ table[pk] # NoRow
    THEN IF table[pk].status = REJECTED /\ self.status = PENDING_VERIFICATION
         THEN {"status"}
         ELSE IF table[pk].status = VERIFIED /\ self.status = PENDING_VERIFICATION
              THEN {"status"}
              ELSE {}
    ELSE {}

\* As PrescriptionClean, raising at the first rule that is violated.
PrescriptionCleanFirstError(self, pk, table) ==
    IF PathErrors(self) # {} THEN PathErrors(self)
    ELSE IF ReasonErrors(self) # {} THEN ReasonErrors(self)
    ELSE PrescriptionTransitionErrors(self, pk, table)

\* As PrescriptionClean, with a VERIFIED prescription required to name its
\* verifier and the time of verification.
PrescriptionCleanVerifierRequired(self, pk, table) ==
    PathErrors(self) \cup ReasonErrors(self)
        \cup PrescriptionTransitionErrors(self, pk, table)
        \cup (IF self.status = VERIFIED
                 /\ (self.verifier = None \/ self.verified_at = None)
              THEN {"verifier"}
              ELSE {})

\* The keys of the errors dict clean() raises ValidationError with ({} = passes).
PrescriptionClean(self, pk, table) ==
    PathErrors(self) \cup ReasonErrors(self)
        \cup PrescriptionTransitionErrors(self, pk, table)

(***************************************************************************)
(* Order.clean                                                             *)
(***************************************************************************)
OrderInstances ==
    [status : OrderStatus, tracking_number : Texts,
     prescription : PrescriptionIds]

PrescriptionErrorsOnCreateOnly(self, pk, ptable) ==
    IF pk = None /\ self.prescription # None
       /\ ptable[self.prescription].status # VERIFIED
    THEN {"prescription"}
    ELSE {}

PrescriptionErrors(self, pk, ptable) ==
    IF self.prescription # None
    THEN (IF ptable[self.prescription].status # VERIFIED
          THEN {"prescription"} ELSE {})
    ELSE {}

valid_transitions_skip(old) ==
    CASE old = PLACED -> {CONFIRMED, SHIPPED}
      [] old = CONFIRMED -> {SHIPPED}
      [] old = SHIPPED -> {DELIVERED}
      [] OTHER -> {}

valid_transitions(old) ==
    CASE old = PLACED -> {CONFIRMED}
      [] old = CONFIRMED -> {SHIPPED}
      [] old = SHIPPED -> {DELIVERED}
      [] old = DELIVERED -> {}
      [] OTHER -> {}

\* As OrderTransitionErrors, with a new order checked as if it had been PLACED.
OrderTransitionErrorsFromPlaced(self, pk, otable) ==
    LET old == IF pk # None /\ otable[pk] # NoRow
               THEN otable[pk].status
               ELSE PLACED
    IN  IF old # self.status /\ self.status \notin valid_transitions(old)
        THEN {"status"}
        ELSE {}

OrderTransitionErrors(self, pk, otable) ==
    IF pk # None /\ otable[pk] # NoRow
    THEN IF otable[pk].status # self.status
            /\ self.status \notin valid_transitions(otable[pk].status)
         THEN {"status"}
         ELSE {}
    ELSE {}

TrackingErrorsShippedOnly(self) ==
    IF self.status = SHIPPED /\ IsBlank(self.tracking_number)
    THEN {"tracking_number"}
    ELSE {}

TrackingErrors(self) ==
    IF self.status \in {SHIPPED, DELIVERED}
    THEN (IF IsBlank(self.tracking_number) THEN {"tracking_number"} ELSE {})
    ELSE {}

OrderClean(self, pk, otable, ptable) ==
    PrescriptionErrors(self, pk, ptable)
        \cup OrderTransitionErrors(self, pk, otable)
        \cup TrackingErrors(self)

(***************************************************************************)
(* Persistence: Model.save() inserts when pk is None (next auto id) or     *)
(* names no row, and overwrites the row otherwise.                         *)
(***************************************************************************)
FreeIds(table) == {i \in DOMAIN table : table[i] = NoRow}

NextId(table) == CHOOSE i \in FreeIds(table) : \A j \in FreeIds(table) : i <= j

SavedPk(pk, table) == IF pk = None THEN NextId(table) ELSE pk

Save(table, pk, self) == [table EXCEPT ![SavedPk(pk, table)] = self]

\* objects.get(pk=pk) finds a row
Exists(pk, table) == IF pk = None THEN FALSE ELSE table[pk] # NoRow

OldStatus(pk, table) == IF Exists(pk, table) THEN table[pk].status ELSE "none"

Idle == [op |-> "none"]

Outcome(op, pk, self, old, errors) ==
    [op |-> op, pk |-> pk, inst |-> self, old |-> old, errors |-> errors,
     saved |-> errors = {}]

(***************************************************************************)
(* Sequential callers: full_clean() and, when it passes, save().           *)
(***************************************************************************)
CreatePrescription(pk, self) ==
    /\ last = Idle
    /\ ~Exists(pk, presc)
    /\ FreeIds(presc) # {}
    /\ LET errors == PrescriptionClean(self, pk, presc) IN
         /\ last' = Outcome("prescription", pk, self, "none", errors)
         /\ presc' = IF errors = {} THEN Save(presc, pk, self) ELSE presc
    /\ UNCHANGED <<orders, sess, fileVars, utilVars>>

UpdatePrescription(pk, self) ==
    /\ last = Idle
    /\ Exists(pk, presc)
    /\ LET errors == PrescriptionClean(self, pk, presc) IN
         /\ last' = Outcome("prescription", pk, self, OldStatus(pk, presc), errors)
         /\ presc' = IF errors = {} THEN Save(presc, pk, self) ELSE presc
    /\ UNCHANGED <<orders, sess, fileVars, utilVars>>

CreateOrder(pk, self) ==
    /\ last = Idle
    /\ ~Exists(pk, orders)
    /\ FreeIds(orders) # {}
    /\ presc[self.prescription] # NoRow
    /\ LET errors == OrderClean(self, pk, orders, presc) IN
         /\ last' = Outcome("order", pk, self, "none", errors)
         /\ orders' = IF errors = {} THEN Save(orders, pk, self) ELSE orders
    /\ UNCHANGED <<presc, sess, fileVars, utilVars>>

UpdateOrder(pk, self) ==
    /\ last = Idle
    /\ Exists(pk, orders)
    /\ presc[self.prescription] # NoRow
    /\ LET errors == OrderClean(self, pk, orders, presc) IN
         /\ last' = Outcome("order", pk, self, OldStatus(pk, orders), errors)
         /\ orders' = IF errors = {} THEN Save(orders, pk, self) ELSE orders
    /\ UNCHANGED <<presc, sess, fileVars, utilVars>>

\* The caller has consumed the outcome (the ValidationError or the saved row).
Return ==
    /\ last # Idle
    /\ last' = Idle
    /\ UNCHANGED <<presc, orders, sess, fileVars, utilVars>>

NoFile == [size |-> 0, name |-> <<>>, content |-> "none", content_type |-> "none"]
NoItem == [quantity |-> 0]

\* No other table in use, and no request made of the rate limiter.
MoreIdle ==
    /\ items = <<>>
    /\ users = {}
    /\ pharmacies = {}
    /\ medicines = <<>>
    /\ cache = <<>>
    /\ served = <<>>
    /\ denied = {}
    /\ resp = Idle
    /\ reqs = <<>>

\* No filename helper and no line item in use.
UtilIdle ==
    /\ MoreIdle
    /\ fname = <<>>
    /\ sout = Idle
    /\ calls = <<>>
    /\ clock = 0
    /\ item = NoItem
    /\ iout = Idle

Init ==
    /\ presc = [p \in PrescriptionIds |-> NoRow]
    /\ orders = [o \in OrderIds |-> NoRow]
    /\ last = Idle
    /\ sess = [s \in Sessions |-> Idle]
    /\ file = NoFile
    /\ pos = 0
    /\ res = Idle
    /\ UtilIdle

Next ==
    \/ \E pk \in {None} \cup PrescriptionIds, self \in PrescriptionInstances :
          CreatePrescription(pk, self)
    \/ \E pk \in PrescriptionIds, self \in PrescriptionInstances :
          UpdatePrescription(pk, self)
    \/ \E pk \in {None} \cup OrderIds, self \in OrderInstances :
          CreateOrder(pk, self)
    \/ \E pk \in OrderIds, self \in OrderInstances : UpdateOrder(pk, self)
    \/ Return

Spec == Init /\ [][Next]_vars

(***************************************************************************)
(* Verification (SpecVerify): the same callers, with the prescription's    *)
(* verifier (a user id or None) and verified_at (a time or None), both     *)
(* null=True, blank=True.                                                  *)
(***************************************************************************)
VerifiablePrescriptions ==
    [status : PrescriptionStatus,
     rejection_reason : { <<>>, <<"o", "k">> },
     prescription_image_path : { MaxPathLen },
     verifier : { None, 1 },
     verified_at : { None, 1 }]

NextVerify ==
    \/ \E pk \in {None} \cup PrescriptionIds, self \in VerifiablePrescriptions :
          CreatePrescription(pk, self)
    \/ \E pk \in PrescriptionIds, self \in VerifiablePrescriptions :
          UpdatePrescription(pk, self)
    \/ Return

SpecVerify == Init /\ [][NextVerify]_vars

(***************************************************************************)
(* Concurrent updaters (SpecConc).  Each session is one request: it reads  *)
(* the row into an in-memory instance and sets fields, calls full_clean()  *)
(* (clean() queries the table again for the old status), then save().      *)
(* Neither clean() nor save() takes a lock or opens a transaction, so the  *)
(* steps of different sessions interleave.                                 *)
(***************************************************************************)
ValidRow(p) == [status |-> VERIFIED, rejection_reason |-> <<>>,
                prescription_image_path |-> MaxPathLen]

Loaded(op, pk, self) ==
    [op |-> op, pc |-> "loaded", pk |-> pk, inst |-> self, errors |-> {}]

Validated(s, errors) == [sess[s] EXCEPT !.pc = "validated", !.errors = errors]

\* order = Order.objects.get(pk=pk); order.status = ...; order.tracking_number = ...
LoadOrder(s, pk, status, tracking) ==
    /\ sess[s] = Idle
    /\ Exists(pk, orders)
    /\ sess' = [sess EXCEPT ![s] =
                  Loaded("order", pk,
                         [orders[pk] EXCEPT !.status = status,
                                            !.tracking_number = tracking])]
    /\ UNCHANGED <<presc, orders, last, fileVars, utilVars>>

\* prescription = Prescription.objects.get(pk=pk); prescription.status = ...
LoadPrescription(s, pk, status, reason) ==
    /\ sess[s] = Idle
    /\ Exists(pk, presc)
    /\ sess' = [sess EXCEPT ![s] =
                  Loaded("prescription", pk,
                         [presc[pk] EXCEPT !.status = status,
                                           !.rejection_reason = reason])]
    /\ UNCHANGED <<presc, orders, last, fileVars, utilVars>>

\* instance.full_clean()
Clean(s) ==
    /\ sess[s] # Idle
    /\ sess[s].pc = "loaded"
    /\ sess' = [sess EXCEPT ![s] =
                  Validated(s,
                    IF sess[s].op = "order"
                    THEN OrderClean(sess[s].inst, sess[s].pk, orders, presc)
                    ELSE PrescriptionClean(sess[s].inst, sess[s].pk, presc))]
    /\ UNCHANGED <<presc, orders, last, fileVars, utilVars>>

\* instance.save() after full_clean() passed
SaveInstance(s) ==
    /\ sess[s] # Idle
    /\ sess[s].pc = "validated"
    /\ sess[s].errors = {}
    /\ IF sess[s].op = "order"
       THEN /\ orders' = Save(orders, sess[s].pk, sess[s].inst)
            /\ presc' = presc
       ELSE /\ presc' = Save(presc, sess[s].pk, sess[s].inst)
            /\ orders' = orders
    /\ sess' = [sess EXCEPT ![s] = Idle]
    /\ UNCHANGED <<last, fileVars, utilVars>>

\* full_clean() raised ValidationError: the request ends without a write
Reject(s) ==
    /\ sess[s] # Idle
    /\ sess[s].pc = "validated"
    /\ sess[s].errors # {}
    /\ sess' = [sess EXCEPT ![s] = Idle]
    /\ UNCHANGED <<presc, orders, last, fileVars, utilVars>>

\* A verified prescription and a PLACED order against it exist (a state Spec
\* reaches); no request is in progress.
InitConc ==
    /\ presc = [p \in PrescriptionIds |-> ValidRow(p)]
    /\ orders = [o \in OrderIds |->
                   [status |-> PLACED, tracking_number |-> <<>>, prescription |-> 1]]
    /\ last = Idle
    /\ sess = [s \in Sessions |-> Idle]
    /\ file = NoFile
    /\ pos = 0
    /\ res = Idle
    /\ UtilIdle

NextConc ==
    \/ \E s \in Sessions, pk \in OrderIds, status \in OrderStatus, tracking \in Texts :
          LoadOrder(s, pk, status, tracking)
    \/ \E s \in Sessions, pk \in PrescriptionIds, status \in PrescriptionStatus,
          reason \in Texts : LoadPrescription(s, pk, status, reason)
    \/ \E s \in Sessions : Clean(s)
    \/ \E s \in Sessions : SaveInstance(s)
    \/ \E s \in Sessions : Reject(s)

SpecConc == InitConc /\ [][NextConc]_vars

(***************************************************************************)
(* File upload validation (apps/prescriptions/validators.py).              *)
(* An uploaded file is its size attribute, its name and its content; the   *)
(* content is one of a few kinds of byte stream, and the external          *)
(* libraries (libmagic, PIL) are modelled by what they report for each.    *)
(***************************************************************************)
UpperCase == <<"A", "B", "C", "D", "E", "F", "G", "H", "I", "J", "K", "L", "M",
               "N", "O", "P", "Q", "R", "S", "T", "U", "V", "W", "X", "Y", "Z">>
LowerCase == <<"a", "b", "c", "d", "e", "f", "g", "h", "i", "j", "k", "l", "m",
               "n", "o", "p", "q", "r", "s", "t", "u", "v", "w", "x", "y", "z">>

LowerChar(c) ==
    IF \E i \in DOMAIN UpperCase : UpperCase[i] = c
    THEN LowerCase[CHOOSE i \in DOMAIN UpperCase : UpperCase[i] = c]
    ELSE c

\* str.lower()
Lower(s) == [i \in 1..Len(s) |-> LowerChar(s[i])]

\* str.rfind(c), 1-based; 0 when c does not occur
RFind(s, c) ==
    LET found == { i \in 1..Len(s) : s[i] = c }
    IN  IF found = {} THEN 0
        ELSE CHOOSE i \in found : \A j \in found : j <= i

\* os.path.splitext(p): <<root, ext>>; the extension starts at the last dot of
\* the last path component, leading dots of the component not counted.
Splitext(p) ==
    LET sep == RFind(p, "/")
        dot == RFind(p, ".")
    IN  IF dot > sep /\ \E k \in (sep + 1)..(dot - 1) : p[k] # "."
        THEN <<SubSeq(p, 1, dot - 1), SubSeq(p, dot, Len(p))>>
        ELSE <<p, <<>> >>

\* str.endswith(suffix)
EndsWith(s, suffix) ==
    /\ Len(s) >= Len(suffix)
    /\ SubSeq(s, Len(s) - Len(suffix) + 1, Len(s)) = suffix

ExtJpg == <<".", "j", "p", "g">>
ExtJpeg == <<".", "j", "p", "e", "g">>
ExtPng == <<".", "p", "n", "g">>
ExtPdf == <<".", "p", "d", "f">>

ALLOWED_PRESCRIPTION_EXTENSIONS == {ExtJpg, ExtJpeg, ExtPng, ExtPdf}
ALLOWED_PRESCRIPTION_MIME_TYPES == {"image/jpeg", "image/png", "application/pdf"}

extension_mime_keys == {ExtJpg, ExtJpeg, ExtPng, ExtPdf}

extension_mime_map(ext) ==
    CASE ext = ExtJpg -> "image/jpeg"
      [] ext = ExtJpeg -> "image/jpeg"
      [] ext = ExtPng -> "image/png"
      [] ext = ExtPdf -> "application/pdf"

DefaultMaxMb == 10
FILE_UPLOAD_MAX_MEMORY_SIZE == DefaultMaxMb * 1024 * 1024

\* Kinds of content: what the bytes are.
Contents ==
    {"empty", "jpeg", "jpeg_truncated", "png", "png_corrupt", "pdf",
     "newline_then_pdf", "text", "undetectable"}

\* magic.from_buffer(first bytes, mime=True); "error" when it raises
Magic(content) ==
    CASE content = "empty" -> "application/x-empty"
      [] content \in {"jpeg", "jpeg_truncated"} -> "image/jpeg"
      [] content \in {"png", "png_corrupt"} -> "image/png"
      [] content \in {"pdf", "newline_then_pdf"} -> "application/pdf"
      [] content = "text" -> "text/plain"
      [] content = "undetectable" -> "error"

\* Image.open(file); img.verify(); Image.open(file); img.load() all succeed
PilDecodes(content) == content \in {"jpeg", "png"}

\* header.startswith(b'%PDF-')
HasPdfHeader(content) == content = "pdf"

\* Bytes read by magic sniffing, by the PDF header check, and the prefix
\* Image.open reads before it picks a decoder.
MimeSniffLen == 2048
PdfHeaderLen == 5
PilPrefixLen == 16

Min(a, b) == IF a < b THEN a ELSE b

\* file.read(n) from offset p: the new offset
ReadTo(f, p, n) == Min(p + n, f.size)

\* Where PIL leaves the stream when open/verify/load raises: past the prefix
\* it read, anywhere up to the end of the stream.
PilStopOffsets(f) == {ReadTo(f, 0, PilPrefixLen), f.size}

OK == "ok"

Result(err, p) == [err |-> err, pos |-> p]

\* Each validator: the set of possible <<error raised or OK, stream offset left>>.
\* As validate_file_size, with a file of exactly the maximum size refused.
validate_file_size_exclusive(f, p, max_size_mb) ==
    LET max_size_bytes ==
            IF max_size_mb = None THEN FILE_UPLOAD_MAX_MEMORY_SIZE
            ELSE max_size_mb * 1024 * 1024
    IN  IF f.size = 0 THEN {Result("File is empty", p)}
        ELSE IF f.size >= max_size_bytes
             THEN {Result("File size exceeds maximum allowed size", p)}
             ELSE {Result(OK, p)}

validate_file_size(f, p, max_size_mb) ==
    LET max_size_bytes ==
            IF max_size_mb = None THEN FILE_UPLOAD_MAX_MEMORY_SIZE
            ELSE max_size_mb * 1024 * 1024
    IN  IF f.size = 0 THEN {Result("File is empty", p)}
        ELSE IF f.size > max_size_bytes
             THEN {Result("File size exceeds maximum allowed size", p)}
             ELSE {Result(OK, p)}

validate_file_extension(f, p) ==
    IF f.name = <<>> THEN {Result("Filename is missing", p)}
    ELSE LET ext == Lower(Splitext(f.name)[2])
         IN  IF ext = <<>>
             THEN {Result("File must have a valid extension", p)}
             ELSE IF ext \notin ALLOWED_PRESCRIPTION_EXTENSIONS
                  THEN {Result("File extension is not allowed", p)}
                  ELSE {Result(OK, p)}

\* As validate_mime_type, deciding on the Content-Type the client declared.
validate_mime_type_declared(f, p) ==
    LET mime == f.content_type
        ext == Lower(Splitext(Lower(f.name))[2])
    IN  IF mime \notin ALLOWED_PRESCRIPTION_MIME_TYPES
        THEN {Result("File type is not allowed", 0)}
        ELSE IF ext \in extension_mime_keys
                /\ mime # extension_mime_map(ext)
             THEN {Result("Possible MIME type spoofing detected", 0)}
             ELSE {Result(OK, 0)}

validate_mime_type(f, p) ==
    LET mime == Magic(f.content)
        ext == Lower(Splitext(Lower(f.name))[2])
    IN  IF mime = "error" THEN {Result("Unable to determine file type", 0)}
        ELSE IF mime \notin ALLOWED_PRESCRIPTION_MIME_TYPES
             THEN {Result("File type is not allowed", 0)}
             ELSE IF ext \in extension_mime_keys
                     /\ mime # extension_mime_map(ext)
                  THEN {Result("Possible MIME type spoofing detected", 0)}
                  ELSE {Result(OK, 0)}

validate_file_integrity(f, p) ==
    LET filename == Lower(f.name)
    IN  IF \E e \in {ExtJpg, ExtJpeg, ExtPng} : EndsWith(filename, e)
        THEN IF PilDecodes(f.content)
             THEN {Result(OK, 0)}
             ELSE {Result("Image file is corrupted or invalid", q) :
                      q \in PilStopOffsets(f)}
        ELSE IF EndsWith(filename, ExtPdf)
             THEN IF ~HasPdfHeader(f.content)
                  THEN {Result("PDF file is invalid or corrupted", 0)}
                  ELSE {Result(OK, 0)}
             ELSE {Result(OK, 0)}

Stages == <<"size", "extension", "mime", "integrity">>

Ran(r, n) == [err |-> r.err, pos |-> r.pos, ran |-> SubSeq(Stages, 1, n)]

validate_prescription_file_mime_first(f, p) ==
    UNION { IF r1.err # OK THEN {Ran(r1, 1)} ELSE
      UNION { IF r3.err # OK THEN {Ran(r3, 3)} ELSE
        UNION { IF r2.err # OK THEN {Ran(r2, 2)} ELSE
          { IF r4.err # OK THEN Ran(r4, 4) ELSE Ran(Result(OK, 0), 4) :
              r4 \in validate_file_integrity(f, r2.pos) } :
          r2 \in validate_file_extension(f, r3.pos) } :
        r3 \in validate_mime_type(f, r1.pos) } :
      r1 \in validate_file_size(f, p, None) }

\* The four validators in order, an exception ending the call; file.seek(0)
\* after the last one.
validate_prescription_file(f, p) ==
    UNION { IF r1.err # OK THEN {Ran(r1, 1)} ELSE
      UNION { IF r2.err # OK THEN {Ran(r2, 2)} ELSE
        UNION { IF r3.err # OK THEN {Ran(r3, 3)} ELSE
          { IF r4.err # OK THEN Ran(r4, 4) ELSE Ran(Result(OK, 0), 4) :
              r4 \in validate_file_integrity(f, r3.pos) } :
          r3 \in validate_mime_type(f, r2.pos) } :
        r2 \in validate_file_extension(f, r1.pos) } :
      r1 \in validate_file_size(f, p, None) }

Names ==
    { <<>>, <<"r", "x">>, <<"r", "x", ".", "j", "p", "g">>, <<"r", "x", ".", "J", "P", "G">>, <<"r", "x", ".", "j", "p", "e", "g">>, <<"r", "x", ".", "p", "n", "g">>, <<"r", "x", ".", "p", "d", "f">>,
      <<"r", "x", ".", "e", "x", "e">>, <<".", "p", "d", "f">> }

Sizes ==
    { 0, 1, 20, 5 * 1024 * 1024, 5 * 1024 * 1024 + 1,
      FILE_UPLOAD_MAX_MEMORY_SIZE, FILE_UPLOAD_MAX_MEMORY_SIZE + 1 }

MaxSizeArgs == { None, 5 }

\* Uploaded files: the size is 0 exactly for the empty content, and one byte
\* carries no signature.
\* The Content-Type header the client sent with the upload.
ContentTypes == { "image/jpeg", "application/pdf" }

Files ==
    { f \in [size : Sizes, name : Names, content : Contents,
             content_type : ContentTypes] :
        /\ f.size = 0 <=> f.content = "empty"
        /\ f.size = 1 => f.content \in {"empty", "text", "undetectable"} }

Called(op, r, ran) == [op |-> op, err |-> r.err, ran |-> ran]

ValidateFileSize(max_size_mb) ==
    /\ \E r \in validate_file_size(file, pos, max_size_mb) :
          /\ res' = [op |-> "validate_file_size", err |-> r.err,
                      ran |-> <<"size">>, max_size_mb |-> max_size_mb]
          /\ pos' = r.pos
    /\ UNCHANGED <<file, dbVars, utilVars>>

ValidateFileExtension ==
    /\ \E r \in validate_file_extension(file, pos) :
          /\ res' = Called("validate_file_extension", r, <<"extension">>)
          /\ pos' = r.pos
    /\ UNCHANGED <<file, dbVars, utilVars>>

ValidateMimeType ==
    /\ \E r \in validate_mime_type(file, pos) :
          /\ res' = Called("validate_mime_type", r, <<"mime">>)
          /\ pos' = r.pos
    /\ UNCHANGED <<file, dbVars, utilVars>>

ValidateFileIntegrity ==
    /\ \E r \in validate_file_integrity(file, pos) :
          /\ res' = Called("validate_file_integrity", r, <<"integrity">>)
          /\ pos' = r.pos
    /\ UNCHANGED <<file, dbVars, utilVars>>

ValidatePrescriptionFile ==
    /\ \E r \in validate_prescription_file(file, pos) :
          /\ res' = Called("validate_prescription_file", r, r.ran)
          /\ pos' = r.pos
    /\ UNCHANGED <<file, dbVars, utilVars>>

\* The caller reads the stream to its end (file.read()), e.g. to store it.
CallerRead ==
    /\ pos < file.size
    /\ pos' = file.size
    /\ res' = Idle
    /\ UNCHANGED <<file, dbVars, utilVars>>

InitFile ==
    /\ file \in Files
    /\ pos = 0
    /\ res = Idle
    /\ presc = [p \in PrescriptionIds |-> NoRow]
    /\ orders = [o \in OrderIds |-> NoRow]
    /\ last = Idle
    /\ sess = [s \in Sessions |-> Idle]
    /\ UtilIdle

NextFile ==
    \/ \E m \in MaxSizeArgs : ValidateFileSize(m)
    \/ ValidateFileExtension
    \/ ValidateMimeType
    \/ ValidateFileIntegrity
    \/ ValidatePrescriptionFile
    \/ CallerRead

SpecFile == InitFile /\ [][NextFile]_vars

(***************************************************************************)
(* Storage file names (apps/prescriptions/utils.py)                        *)
(*                                                                         *)
(* A file name is a sequence of characters.  "U+00E9" is the letter e with *)
(* an acute accent, which NFKD splits into "e" and the combining accent    *)
(* "U+0301"; "U+0928" is a Devanagari letter, which has no decomposition.  *)
(***************************************************************************)
Digit == <<"0", "1", "2", "3", "4", "5", "6", "7", "8", "9">>

Range(s) == { s[i] : i \in DOMAIN s }

Ascii ==
    Range(LowerCase) \cup Range(UpperCase) \cup Range(Digit)
        \cup { "_", "-", " ", ".", "/", "\\", "@" }

\* The characters the pattern [^a-zA-Z0-9_-] leaves in place.
NameChars ==
    Range(LowerCase) \cup Range(UpperCase) \cup Range(Digit) \cup { "_", "-" }

Rep(c, n) == [i \in 1..n |-> c]

\* s[:n]
Prefix(s, n) ==
    IF n >= 0 THEN SubSeq(s, 1, Min(n, Len(s)))
    ELSE SubSeq(s, 1, Len(s) + n)

\* s.count(c)
Count(s, c) == Cardinality({ i \in 1..Len(s) : s[i] = c })

\* s.replace(c, "")
Remove(s, c) == SelectSeq(s, LAMBDA x : x # c)

\* s.replace(c, d)
Replace(s, c, d) == [i \in 1..Len(s) |-> IF s[i] = c THEN d ELSE s[i]]

\* s.replace("..", ""): the non-overlapping pairs of dots, found from the
\* left, are removed, so a run of dots keeps its last dot when it is odd.
RemoveDotDot(s) ==
    LET start(i) == CHOOSE j \in 1..i :
                       /\ \A k \in j..i : s[k] = "."
                       /\ j = 1 \/ s[j - 1] # "."
        end(i) == CHOOSE j \in i..Len(s) :
                       /\ \A k \in i..j : s[k] = "."
                       /\ j = Len(s) \/ s[j + 1] # "."
        kept(i) == IF s[i] # "." THEN TRUE
                   ELSE i = end(i) /\ (end(i) - start(i) + 1) % 2 = 1
        marked == [i \in 1..Len(s) |-> [c |-> s[i], kept |-> kept(i)]]
        left == SelectSeq(marked, LAMBDA m : m.kept)
    IN  [i \in 1..Len(left) |-> left[i].c]

\* unicodedata.normalize('NFKD', c) of one character
Decompose(c) == IF c = "U+00E9" THEN <<"e", "U+0301">> ELSE <<c>>

RECURSIVE Flatten(_)
Flatten(ss) ==
    IF Len(ss) = 0 THEN <<>>
    ELSE IF Len(ss) = 1 THEN ss[1]
    ELSE LET half == Len(ss) \div 2
         IN  Flatten(SubSeq(ss, 1, half))
                \o Flatten(SubSeq(ss, half + 1, Len(ss)))

\* unicodedata.normalize('NFKD', s)
Normalize(s) == Flatten([i \in 1..Len(s) |-> Decompose(s[i])])

\* s.encode('ascii', 'ignore').decode('ascii')
AsciiIgnore(s) == SelectSeq(s, LAMBDA c : c \in Ascii)

\* re.sub(r'[^a-zA-Z0-9_-]', '', s)
SubSpecial(s) == SelectSeq(s, LAMBDA c : c \in NameChars)

DefaultName == <<"f", "i", "l", "e">>

max_name_length == 50
MaxSanitizedLen == 100

sanitize_filename(filename) ==
    IF filename = <<>> THEN DefaultName
    ELSE IF filename[1] = "." /\ Count(filename, ".") = 1
         THEN DefaultName \o filename
         ELSE LET parts == Splitext(filename)
                  name1 == Remove(Remove(RemoveDotDot(parts[1]), "/"), "\\")
                  ext1 == Remove(Remove(RemoveDotDot(parts[2]), "/"), "\\")
                  name2 == AsciiIgnore(Normalize(name1))
                  name3 == Replace(name2, " ", "_")
                  name4 == SubSpecial(name3)
                  name5 == IF name4 = <<>> THEN DefaultName ELSE name4
                  name6 == IF Len(name5) > max_name_length
                           THEN Prefix(name5, max_name_length)
                           ELSE name5
                  ext2 == IF ext1 # <<>> /\ ext1[1] # "."
                          THEN <<".">> \o ext1
                          ELSE ext1
                  ext3 == Lower(ext2)
                  sanitized == name6 \o ext3
              IN  IF Len(sanitized) > MaxSanitizedLen
                  THEN Prefix(name6, MaxSanitizedLen - Len(ext3)) \o ext3
                  ELSE sanitized

\* File names a client can send: every short name over a few characters of
\* each kind, and long names around the two length limits.
MaxNameLen == 3

Alphabet == { "a", "B", "7", "_", "-", " ", ".", "/", "\\", "@", "U+00E9", "U+0928" }

ShortNames == UNION { [1..n -> Alphabet] : n \in 0..MaxNameLen }

LongBases == { Rep("a", n) : n \in {1, 49, 50, 51, 101, 200} }

LongExts ==
    { <<>>, <<".", "J", "P", "G">> }
        \cup { <<".">> \o Rep("b", n) : n \in {48, 49, 50, 99, 120, 1100} }

LongNames == { b \o x : b \in LongBases, x \in LongExts }

Filenames == ShortNames \cup LongNames

SanitizeFilename ==
    /\ sout = Idle
    /\ sout' = [op |-> "sanitize_filename", value |-> sanitize_filename(fname)]
    /\ UNCHANGED <<fname, dbVars, fileVars, pathVars, itemVars, relVars, rateVars>>

InitName ==
    /\ fname \in Filenames
    /\ sout = Idle
    /\ calls = <<>>
    /\ clock = 0
    /\ item = NoItem
    /\ iout = Idle
    /\ file = NoFile
    /\ pos = 0
    /\ res = Idle
    /\ presc = [p \in PrescriptionIds |-> NoRow]
    /\ orders = [o \in OrderIds |-> NoRow]
    /\ last = Idle
    /\ sess = [s \in Sessions |-> Idle]
    /\ MoreIdle

NextName == SanitizeFilename

SpecName == InitName /\ [][NextName]_vars

(***************************************************************************)
(* Storage paths (generate_prescription_path)                              *)
(*                                                                         *)
(* timezone.now() is the clock, in seconds after midnight of one day, and  *)
(* uuid.uuid4() is a value the caller cannot choose: each call draws its   *)
(* token from Tokens.                                                      *)
(***************************************************************************)
\* str(n) for n >= 0
RECURSIVE Str(_)
Str(n) ==
    IF n < 10 THEN <<Digit[n + 1]>>
    ELSE Str(n \div 10) \o <<Digit[(n % 10) + 1]>>

\* %H, %M and %S: two digits
TwoDigits(n) == <<Digit[(n \div 10) + 1], Digit[(n % 10) + 1]>>

Today == <<"2", "0", "2", "5", "1", "2", "2", "0">>

\* now.strftime("%Y%m%d_%H%M%S")
Strftime(now) ==
    Today \o <<"_">> \o TwoDigits(now \div 3600)
          \o TwoDigits((now \div 60) % 60) \o TwoDigits(now % 60)

\* str(uuid.uuid4().hex)[:8]
TokenLen == 8

Tokens ==
    { <<"0", "0", "0", "0", "0", "0", "0", "0">>,
      <<"a", "1", "b", "2", "c", "3", "d", "4">> }

Folder == <<"p", "r", "e", "s", "c", "r", "i", "p", "t", "i", "o", "n", "s", "/">>

MaxS3PathLen == 1024

ValueError == "ValueError"

\* f"prescriptions/{user_id}/{timestamp}_{unique_id}_"
PathPrefix(user_id, now, unique_id) ==
    Folder \o Str(user_id) \o <<"/">> \o Strftime(now) \o <<"_">>
           \o Prefix(unique_id, TokenLen) \o <<"_">>

\* As generate_prescription_path, with the same token in every call.
generate_prescription_path_fixed_token(user_id, filename, now, unique_id) ==
    IF user_id < 0 THEN [err |-> ValueError, path |-> <<>>]
    ELSE [err |-> OK,
          path |-> PathPrefix(user_id, now, Rep("0", TokenLen))
                      \o sanitize_filename(filename)]

generate_prescription_path(user_id, filename, now, unique_id) ==
    IF user_id < 0 THEN [err |-> ValueError, path |-> <<>>]
    ELSE LET sanitized_filename == sanitize_filename(filename)
             prefix == PathPrefix(user_id, now, unique_id)
             path == prefix \o sanitized_filename
             max_filename_length == MaxS3PathLen - Len(prefix)
             ext == Splitext(sanitized_filename)[2]
             name_part == Prefix(sanitized_filename,
                                 max_filename_length - Len(ext))
         IN  IF Len(path) > MaxS3PathLen /\ max_filename_length > 0
             THEN [err |-> OK, path |-> prefix \o name_part \o ext]
             ELSE [err |-> OK, path |-> path]

\* Owners and file names of the calls, the bound on the number of calls and
\* the last second of the clock.
UserIds == { -1, 0, 123 }

PathFilenames ==
    { <<>>,
      <<"m", "y", " ", "f", "i", "l", "e", ".", "j", "p", "g">>,
      <<"a", ".">> \o Rep("b", 1100) }

MaxCalls == 2
MaxClock == 1

GeneratePrescriptionPath(user_id, filename, unique_id) ==
    /\ Len(calls) < MaxCalls
    /\ LET r == generate_prescription_path(user_id, filename, clock, unique_id)
       IN  calls' = Append(calls, [user_id |-> user_id, filename |-> filename,
                                   now |-> clock, unique_id |-> unique_id,
                                   err |-> r.err, path |-> r.path])
    /\ UNCHANGED <<clock, dbVars, fileVars, nameVars, itemVars, relVars, rateVars>>

\* A second passes.
Tick ==
    /\ clock < MaxClock
    /\ clock' = clock + 1
    /\ UNCHANGED <<calls, dbVars, fileVars, nameVars, itemVars, relVars, rateVars>>

InitPath ==
    /\ calls = <<>>
    /\ clock = 0
    /\ fname = <<>>
    /\ sout = Idle
    /\ item = NoItem
    /\ iout = Idle
    /\ file = NoFile
    /\ pos = 0
    /\ res = Idle
    /\ presc = [p \in PrescriptionIds |-> NoRow]
    /\ orders = [o \in OrderIds |-> NoRow]
    /\ last = Idle
    /\ sess = [s \in Sessions |-> Idle]
    /\ MoreIdle

NextPath ==
    \/ \E u \in UserIds, f \in PathFilenames, t \in Tokens :
          GeneratePrescriptionPath(u, f, t)
    \/ Tick

SpecPath == InitPath /\ [][NextPath]_vars

(***************************************************************************)
(* Order line items (OrderItem.subtotal)                                   *)
(*                                                                         *)
(* A Decimal is its coefficient and exponent: 10.33 is [coef |-> 1033,     *)
(* exp |-> -2].  An int times a Decimal multiplies the coefficient; the    *)
(* 28-digit precision of the decimal context is beyond a 10-digit quantity *)
(* times a 10-digit price.                                                 *)
(***************************************************************************)
Decimal(coef, exp) == [coef |-> coef, exp |-> exp]

\* int.__mul__ / Decimal.__rmul__
Mul(n, d) == [coef |-> n * d.coef, exp |-> d.exp]

\* As OrderItem.subtotal, with the price cut to whole currency units.
subtotal_whole_units(self) ==
    Mul(self.quantity, Decimal(self.unit_price.coef \div 100, 0))

\* OrderItem.subtotal
subtotal(self) == Mul(self.quantity, self.unit_price)

Quantities == { 1, 2, 3, 10, 50, 100, 1000 }

UnitPrices ==
    { Decimal(c, -2) : c \in {1, 99, 100, 1033, 1999, 2500, 99999, 999999} }

OrderItems == [quantity : Quantities, unit_price : UnitPrices]

\* item.subtotal is read.
ReadSubtotal ==
    /\ iout' = [op |-> "subtotal", item |-> item, value |-> subtotal(item)]
    /\ UNCHANGED <<item, dbVars, fileVars, nameVars, pathVars, relVars, rateVars>>

\* item.quantity = q, item.unit_price = p
SetQuantity(q) ==
    /\ item' = [item EXCEPT !.quantity = q]
    /\ iout' = Idle
    /\ UNCHANGED <<dbVars, fileVars, nameVars, pathVars, relVars, rateVars>>

SetUnitPrice(p) ==
    /\ item' = [item EXCEPT !.unit_price = p]
    /\ iout' = Idle
    /\ UNCHANGED <<dbVars, fileVars, nameVars, pathVars, relVars, rateVars>>

InitItem ==
    /\ item \in OrderItems
    /\ iout = Idle
    /\ fname = <<>>
    /\ sout = Idle
    /\ calls = <<>>
    /\ clock = 0
    /\ file = NoFile
    /\ pos = 0
    /\ res = Idle
    /\ presc = [p \in PrescriptionIds |-> NoRow]
    /\ orders = [o \in OrderIds |-> NoRow]
    /\ last = Idle
    /\ sess = [s \in Sessions |-> Idle]
    /\ MoreIdle

NextItem ==
    \/ ReadSubtotal
    \/ \E q \in Quantities : SetQuantity(q)
    \/ \E p \in UnitPrices : SetUnitPrice(p)

SpecItem == InitItem /\ [][NextItem]_vars

(***************************************************************************)
(* Model.save() called directly (SpecSave): each model overrides save()    *)
(* with a call of super().save() alone.  The outcome records what clean()  *)
(* raises for the instance at the time of the call.                        *)
(***************************************************************************)
NumItems == 1
ItemIds == 1..NumItems

SavedPrescriptions ==
    [status : PrescriptionStatus,
     rejection_reason : { <<>>, <<"o", "k">> },
     prescription_image_path : { MaxPathLen }]

SavedOrders ==
    [status : OrderStatus,
     tracking_number : { <<>>, <<"o", "k">> },
     prescription : PrescriptionIds]

SavedItems == [order : OrderIds, quantity : { -1, 0, 1 }]

\* OrderItem.clean: the keys of the errors dict.
OrderItemClean(self) == IF self.quantity < 1 THEN {"quantity"} ELSE {}

\* The outcome of save(): the row is written unless the database refuses it.
Written(model, pk, self, errors, refused) ==
    [op |-> "save", model |-> model, pk |-> pk, inst |-> self,
     clean |-> errors, saved |-> ~refused]

SavePrescription(pk, self) ==
    /\ last = Idle
    /\ pk = None => FreeIds(presc) # {}
    /\ last' = Written("prescription", pk, self,
                       PrescriptionClean(self, pk, presc), FALSE)
    /\ presc' = Save(presc, pk, self)
    /\ UNCHANGED <<orders, sess, fileVars, utilVars>>

\* The foreign key to the prescription names a row (the instance was built
\* from a Prescription object).
SaveOrder(pk, self) ==
    /\ last = Idle
    /\ pk = None => FreeIds(orders) # {}
    /\ presc[self.prescription] # NoRow
    /\ last' = Written("order", pk, self,
                       OrderClean(self, pk, orders, presc), FALSE)
    /\ orders' = Save(orders, pk, self)
    /\ UNCHANGED <<presc, sess, fileVars, utilVars>>

\* PositiveIntegerField carries the database check quantity >= 0: a negative
\* quantity raises IntegrityError and nothing is written.
SaveOrderItem(pk, self) ==
    /\ last = Idle
    /\ pk = None => FreeIds(items) # {}
    /\ orders[self.order] # NoRow
    /\ LET refused == self.quantity < 0 IN
         /\ last' = Written("order_item", pk, self, OrderItemClean(self), refused)
         /\ items' = IF refused THEN items ELSE Save(items, pk, self)
    /\ UNCHANGED <<presc, orders, sess, fileVars, nameVars, pathVars, itemVars,
                   users, pharmacies, medicines, rateVars>>

InitSave ==
    /\ presc = [p \in PrescriptionIds |-> NoRow]
    /\ orders = [o \in OrderIds |-> NoRow]
    /\ items = [i \in ItemIds |-> NoRow]
    /\ last = Idle
    /\ sess = [s \in Sessions |-> Idle]
    /\ file = NoFile
    /\ pos = 0
    /\ res = Idle
    /\ users = {}
    /\ pharmacies = {}
    /\ medicines = <<>>
    /\ cache = <<>>
    /\ served = <<>>
    /\ denied = {}
    /\ resp = Idle
    /\ reqs = <<>>
    /\ fname = <<>>
    /\ sout = Idle
    /\ calls = <<>>
    /\ clock = 0
    /\ item = NoItem
    /\ iout = Idle

NextSave ==
    \/ \E pk \in {None} \cup PrescriptionIds, self \in SavedPrescriptions :
          SavePrescription(pk, self)
    \/ \E pk \in {None} \cup OrderIds, self \in SavedOrders : SaveOrder(pk, self)
    \/ \E pk \in {None} \cup ItemIds, self \in SavedItems : SaveOrderItem(pk, self)
    \/ Return

SpecSave == InitSave /\ [][NextSave]_vars

(***************************************************************************)
(* Deletion (SpecDelete): Model.delete() collects the rows to delete       *)
(* through the on_delete rules of the foreign keys,                        *)
(*   Prescription.patient CASCADE, Prescription.verifier SET_NULL,         *)
(*   Order.patient CASCADE, Order.pharmacy PROTECT,                        *)
(*   Order.prescription PROTECT, OrderItem.order CASCADE,                  *)
(*   OrderItem.medicine PROTECT, Medicine.pharmacy PROTECT,                *)
(* and raises ProtectedError, deleting nothing, when a collected row is    *)
(* referenced through a PROTECT key, whether or not the referencing row is *)
(* itself collected.  Rows hold their foreign keys only.                   *)
(***************************************************************************)
UserRows == {1, 2}
PharmacyRows == {1}
MedicineIds == {1}

RelatedPrescriptions ==
    [patient : UserRows, verifier : {None} \cup (UserRows \ {1})]
RelatedOrders ==
    [patient : UserRows, pharmacy : PharmacyRows, prescription : PrescriptionIds]
RelatedItems == [order : OrderIds, medicine : MedicineIds]
RelatedMedicines == [pharmacy : PharmacyRows]

Rows(table) == {k \in DOMAIN table : table[k] # NoRow}

\* related_objects(): the rows whose foreign key `field` names one of `pks`.
related_objects(table, field, pks) ==
    {k \in Rows(table) : table[k][field] \in pks}

\* As protected_objects, without the rule of Order.prescription.
protected_objects_pharmacy_medicine(ps, phs, ms) ==
    {f \in {"Order.pharmacy"} : related_objects(orders, "pharmacy", phs) # {}}
      \cup {f \in {"Medicine.pharmacy"} :
               related_objects(medicines, "pharmacy", phs) # {}}
      \cup {f \in {"OrderItem.medicine"} : related_objects(items, "medicine", ms) # {}}

\* The foreign keys with on_delete=PROTECT that name one of the collected
\* rows: the protected_objects of the ProtectedError.
protected_objects(ps, phs, ms) ==
    {f \in {"Order.prescription"} : related_objects(orders, "prescription", ps) # {}}
      \cup {f \in {"Order.pharmacy"} : related_objects(orders, "pharmacy", phs) # {}}
      \cup {f \in {"Medicine.pharmacy"} :
               related_objects(medicines, "pharmacy", phs) # {}}
      \cup {f \in {"OrderItem.medicine"} : related_objects(items, "medicine", ms) # {}}

Tables ==
    [presc |-> presc, orders |-> orders, items |-> items, users |-> users,
     pharmacies |-> pharmacies, medicines |-> medicines]

Deleted(model, pk, protected) ==
    [op |-> "delete", model |-> model, pk |-> pk, protected |-> protected,
     before |-> Tables]

Drop(table, pks) == [k \in DOMAIN table |-> IF k \in pks THEN NoRow ELSE table[k]]

\* SET_NULL: the verifier of the prescriptions verified by a deleted user.
SetNull(table, us) ==
    [k \in DOMAIN table |->
        IF table[k] # NoRow /\ table[k].verifier \in us
        THEN [table[k] EXCEPT !.verifier = None]
        ELSE table[k]]

\* Collector.collect() and Collector.delete() for users us, prescriptions ps,
\* orders os, items is, pharmacies phs and medicines ms, already closed
\* under CASCADE.
Delete(model, pk, us, ps, os, is, phs, ms) ==
    LET protected == protected_objects(ps, phs, ms) IN
    /\ last = Idle
    /\ last' = Deleted(model, pk, protected)
    /\ IF protected # {}
       THEN UNCHANGED <<presc, orders, relVars>>
       ELSE /\ users' = users \ us
            /\ presc' = Drop(SetNull(presc, us), ps)
            /\ orders' = Drop(orders, os)
            /\ items' = Drop(items, is)
            /\ pharmacies' = pharmacies \ phs
            /\ medicines' = Drop(medicines, ms)
    /\ UNCHANGED <<sess, fileVars, nameVars, pathVars, itemVars, rateVars>>

\* user.delete(): CASCADE to the user's prescriptions and orders, and from
\* the orders to their items.
DeleteUser(u) ==
    /\ u \in users
    /\ LET ps == related_objects(presc, "patient", {u})
           os == related_objects(orders, "patient", {u})
       IN Delete("user", u, {u}, ps, os, related_objects(items, "order", os),
                 {}, {})

DeletePrescription(p) ==
    /\ presc[p] # NoRow
    /\ Delete("prescription", p, {}, {p}, {}, {}, {}, {})

DeleteOrder(o) ==
    /\ orders[o] # NoRow
    /\ Delete("order", o, {}, {}, {o}, related_objects(items, "order", {o}), {}, {})

DeleteOrderItem(i) ==
    /\ items[i] # NoRow
    /\ Delete("order_item", i, {}, {}, {}, {i}, {}, {})

DeletePharmacy(ph) ==
    /\ ph \in pharmacies
    /\ Delete("pharmacy", ph, {}, {}, {}, {}, {ph}, {})

DeleteMedicine(m) ==
    /\ medicines[m] # NoRow
    /\ Delete("medicine", m, {}, {}, {}, {}, {}, {m})

\* objects.create(): the database accepts a row whose foreign keys name rows.
InsertUser(u) ==
    /\ last = Idle
    /\ u \notin users
    /\ users' = users \cup {u}
    /\ UNCHANGED <<dbVars, fileVars, nameVars, pathVars, itemVars, rateVars,
                   items, pharmacies, medicines>>

InsertPharmacy(ph) ==
    /\ last = Idle
    /\ ph \notin pharmacies
    /\ pharmacies' = pharmacies \cup {ph}
    /\ UNCHANGED <<dbVars, fileVars, nameVars, pathVars, itemVars, rateVars,
                   items, users, medicines>>

InsertMedicine(self) ==
    /\ last = Idle
    /\ FreeIds(medicines) # {}
    /\ self.pharmacy \in pharmacies
    /\ medicines' = Save(medicines, None, self)
    /\ UNCHANGED <<dbVars, fileVars, nameVars, pathVars, itemVars, rateVars,
                   items, users, pharmacies>>

InsertPrescription(self) ==
    /\ last = Idle
    /\ FreeIds(presc) # {}
    /\ self.patient \in users
    /\ self.verifier \in {None} \cup users
    /\ presc' = Save(presc, None, self)
    /\ UNCHANGED <<orders, last, sess, fileVars, utilVars>>

InsertOrder(self) ==
    /\ last = Idle
    /\ FreeIds(orders) # {}
    /\ self.patient \in users
    /\ self.pharmacy \in pharmacies
    /\ presc[self.prescription] # NoRow
    /\ orders' = Save(orders, None, self)
    /\ UNCHANGED <<presc, last, sess, fileVars, utilVars>>

InsertOrderItem(self) ==
    /\ last = Idle
    /\ FreeIds(items) # {}
    /\ orders[self.order] # NoRow
    /\ medicines[self.medicine] # NoRow
    /\ items' = Save(items, None, self)
    /\ UNCHANGED <<dbVars, fileVars, nameVars, pathVars, itemVars, rateVars,
                   users, pharmacies, medicines>>

InitDelete ==
    /\ presc = [p \in PrescriptionIds |-> NoRow]
    /\ orders = [o \in OrderIds |-> NoRow]
    /\ items = [i \in ItemIds |-> NoRow]
    /\ medicines = [m \in MedicineIds |-> NoRow]
    /\ users = {}
    /\ pharmacies = {}
    /\ last = Idle
    /\ sess = [s \in Sessions |-> Idle]
    /\ file = NoFile
    /\ pos = 0
    /\ res = Idle
    /\ cache = <<>>
    /\ served = <<>>
    /\ denied = {}
    /\ resp = Idle
    /\ reqs = <<>>
    /\ fname = <<>>
    /\ sout = Idle
    /\ calls = <<>>
    /\ clock = 0
    /\ item = NoItem
    /\ iout = Idle

NextDelete ==
    \/ \E u \in UserRows : InsertUser(u)
    \/ \E ph \in PharmacyRows : InsertPharmacy(ph)
    \/ \E self \in RelatedMedicines : InsertMedicine(self)
    \/ \E self \in RelatedPrescriptions : InsertPrescription(self)
    \/ \E self \in RelatedOrders : InsertOrder(self)
    \/ \E self \in RelatedItems : InsertOrderItem(self)
    \/ \E u \in UserRows : DeleteUser(u)
    \/ \E p \in PrescriptionIds : DeletePrescription(p)
    \/ \E o \in OrderIds : DeleteOrder(o)
    \/ \E i \in ItemIds : DeleteOrderItem(i)
    \/ \E ph \in PharmacyRows : DeletePharmacy(ph)
    \/ \E m \in MedicineIds : DeleteMedicine(m)
    \/ Return

SpecDelete == InitDelete /\ [][NextDelete]_vars

(***************************************************************************)
(* RateLimitMiddleware (SpecRate): one call of __call__ per request, run   *)
(* to its end before the next.  The cache is Django's default cache: a key *)
(* set with a timeout is gone once the timeout has elapsed; it is held as  *)
(* key -> [value, ttl] with ttl the seconds left.  The cache key           *)
(* f'rate_limit:{path}:{ip}' is held as the pair <<path, ip>>.             *)
(* served is an observer of one key, chosen at the start: the ages in      *)
(* seconds of its requests passed to the view less than WINDOW seconds     *)
(* ago, and the number passed since the key last went WINDOW seconds       *)
(* without one; denied: the keys answered 429 since their last pass and    *)
(* some time after it.                                                     *)
(***************************************************************************)
TokenPath == "/api/auth/token/"
RefreshPath == "/api/auth/token/refresh/"

RATE_LIMITS == (TokenPath :> 5) @@ (RefreshPath :> 10)

WINDOW == 60

\* META of the requests: REMOTE_ADDR and, behind a proxy, X-Forwarded-For (a
\* comma-separated list, held as its elements).
Requests ==
    { [path |-> TokenPath, REMOTE_ADDR |-> "10.0.0.1", HTTP_X_FORWARDED_FOR |-> <<>>],
      [path |-> TokenPath, REMOTE_ADDR |-> "10.0.0.1",
       HTTP_X_FORWARDED_FOR |-> <<"10.0.0.2", "10.0.0.1">>],
      [path |-> RefreshPath, REMOTE_ADDR |-> "10.0.0.1", HTTP_X_FORWARDED_FOR |-> <<>>],
      [path |-> "/api/orders/", REMOTE_ADDR |-> "10.0.0.1", HTTP_X_FORWARDED_FOR |-> <<>>],
      [path |-> "/api/orders/", REMOTE_ADDR |-> "10.0.0.1",
       HTTP_X_FORWARDED_FOR |-> <<"10.0.0.2", "10.0.0.1">>] }

get_client_ip(request) ==
    IF request.HTTP_X_FORWARDED_FOR # <<>>
    THEN request.HTTP_X_FORWARDED_FOR[1]
    ELSE request.REMOTE_ADDR

cache_key(request) == <<request.path, get_client_ip(request)>>

Keys == { cache_key(r) : r \in {q \in Requests : q.path \in DOMAIN RATE_LIMITS} }

cache_get(c, key, default) == IF key \in DOMAIN c THEN c[key].value ELSE default

cache_set(c, key, value, timeout) ==
    [k \in DOMAIN c \cup {key} |->
        IF k = key THEN [value |-> value, ttl |-> timeout] ELSE c[k]]

\* As Elapse, with keys that never expire.
ElapseKept(c, d) == c

\* d seconds pass: the keys whose timeout has elapsed are gone.
Elapse(c, d) ==
    [k \in {j \in DOMAIN c : c[j].ttl > d} |-> [c[k] EXCEPT !.ttl = @ - d]]

\* As over_limit, with one request more let through.
over_limit_exclusive(request_count, limit) == request_count > limit

\* request_count >= self.RATE_LIMITS[path]
over_limit(request_count, limit) == request_count >= limit

\* __call__(request)
Call(request) ==
    /\ resp = Idle
    /\ LET path == request.path
           limited == path \in DOMAIN RATE_LIMITS
           key == cache_key(request)
           request_count == cache_get(cache, key, 0)
           reject == limited /\ over_limit(request_count, RATE_LIMITS[path])
           watched == limited /\ key = served.key
       IN
         /\ cache' = IF limited /\ ~reject
                     THEN cache_set(cache, key, request_count + 1, WINDOW)
                     ELSE cache
         /\ resp' = [op |-> "call", request |-> request, passed |-> ~reject,
                     status |-> IF reject THEN 429 ELSE None,
                     retry_after |-> IF reject THEN Str(WINDOW) ELSE <<>>,
                     watched |-> watched,
                     recent |-> Len(served.ages),
                     streak |-> served.streak,
                     denied |-> limited /\ key \in denied]
         /\ served' = IF watched /\ ~reject
                      THEN [served EXCEPT !.ages = Append(@, 0), !.streak = @ + 1]
                      ELSE served
         /\ denied' = IF ~limited THEN denied
                      ELSE IF ~reject THEN denied \ {key}
                      ELSE IF cache[key].ttl < WINDOW THEN denied \cup {key}
                      ELSE denied
    /\ UNCHANGED <<dbVars, fileVars, nameVars, pathVars, itemVars, relVars, reqs>>

\* The response has been sent.
Answered ==
    /\ resp # Idle
    /\ resp' = Idle
    /\ UNCHANGED <<dbVars, fileVars, nameVars, pathVars, itemVars, relVars,
                   cache, served, denied, reqs>>

Younger(ages, d) == SelectSeq(ages, LAMBDA a : a + d < WINDOW)

\* d seconds pass between two requests.
Advance(d) ==
    /\ resp = Idle
    /\ cache' = Elapse(cache, d)
    /\ LET ages == Younger(served.ages, d) IN
         served' = [key |-> served.key,
                    ages |-> [i \in DOMAIN ages |-> ages[i] + d],
                    streak |-> IF ages = <<>> THEN 0 ELSE served.streak]
    /\ UNCHANGED <<dbVars, fileVars, nameVars, pathVars, itemVars, relVars,
                   denied, resp, reqs>>

Delays == {59, 61}

InitRate ==
    /\ cache = <<>>
    /\ served \in [key : Keys, ages : {<<>>}, streak : {0}]
    /\ denied = {}
    /\ resp = Idle
    /\ reqs = <<>>
    /\ presc = [p \in PrescriptionIds |-> NoRow]
    /\ orders = [o \in OrderIds |-> NoRow]
    /\ last = Idle
    /\ sess = [s \in Sessions |-> Idle]
    /\ file = NoFile
    /\ pos = 0
    /\ res = Idle
    /\ items = <<>>
    /\ users = {}
    /\ pharmacies = {}
    /\ medicines = <<>>
    /\ fname = <<>>
    /\ sout = Idle
    /\ calls = <<>>
    /\ clock = 0
    /\ item = NoItem
    /\ iout = Idle

NextRate ==
    \/ \E request \in Requests : Call(request)
    \/ \E d \in Delays : Advance(d)
    \/ Answered

SpecRate == InitRate /\ [][NextRate]_vars

(***************************************************************************)
(* Concurrent requests through RateLimitMiddleware (SpecRateConc): the     *)
(* requests of one client to the token path, each in its own thread,       *)
(* within one window.  cache.get and cache.set are separate cache          *)
(* operations; a thread may be between them while others run.              *)
(***************************************************************************)
NumRequests == 6

TokenRequest == CHOOSE r \in Requests : cache_key(r) = <<TokenPath, "10.0.0.1">>

\* request_count = cache.get(cache_key, 0)
ReadCount(r) ==
    /\ reqs[r].pc = "start"
    /\ reqs' = [reqs EXCEPT ![r] =
                   [pc |-> "read",
                    request_count |-> cache_get(cache, cache_key(TokenRequest), 0)]]
    /\ UNCHANGED <<dbVars, fileVars, nameVars, pathVars, itemVars, relVars,
                   cache, served, denied, resp>>

\* The comparison with the limit and, below it, cache.set and the view.
LimitOrPass(r) ==
    /\ reqs[r].pc = "read"
    /\ LET reject == over_limit(reqs[r].request_count, RATE_LIMITS[TokenPath]) IN
         /\ reqs' = [reqs EXCEPT ![r].pc = IF reject THEN "429" ELSE "view"]
         /\ cache' = IF reject THEN cache
                     ELSE cache_set(cache, cache_key(TokenRequest),
                                    reqs[r].request_count + 1, WINDOW)
    /\ UNCHANGED <<dbVars, fileVars, nameVars, pathVars, itemVars, relVars,
                   served, denied, resp>>

InitRateConc ==
    /\ reqs = [r \in 1..NumRequests |-> [pc |-> "start", request_count |-> 0]]
    /\ cache = <<>>
    /\ served = <<>>
    /\ denied = {}
    /\ resp = Idle
    /\ presc = [p \in PrescriptionIds |-> NoRow]
    /\ orders = [o \in OrderIds |-> NoRow]
    /\ last = Idle
    /\ sess = [s \in Sessions |-> Idle]
    /\ file = NoFile
    /\ pos = 0
    /\ res = Idle
    /\ items = <<>>
    /\ users = {}
    /\ pharmacies = {}
    /\ medicines = <<>>
    /\ fname = <<>>
    /\ sout = Idle
    /\ calls = <<>>
    /\ clock = 0
    /\ item = NoItem
    /\ iout = Idle

NextRateConc ==
    \/ \E r \in 1..NumRequests : ReadCount(r)
    \/ \E r \in 1..NumRequests : LimitOrPass(r)

SpecRateConc == InitRateConc /\ [][NextRateConc]_vars

(***************************************************************************)
(* extract_original_filename (SpecExtract): applied to the path returned   *)
(* by generate_prescription_path for the file name fname.                  *)
(***************************************************************************)
\* os.path.basename(path): what follows the last '/'.
Basename(path) ==
    LET slashes == {i \in 1..Len(path) : path[i] = "/"} IN
      IF slashes = {} THEN path
      ELSE SubSeq(path, (CHOOSE i \in slashes : \A j \in slashes : j <= i) + 1,
                  Len(path))

\* str.split(sep)
RECURSIVE Split(_, _)
Split(s, sep) ==
    LET found == {i \in 1..Len(s) : s[i] = sep} IN
      IF found = {} THEN <<s>>
      ELSE LET i == CHOOSE i \in found : \A j \in found : i <= j IN
             <<SubSeq(s, 1, i - 1)>> \o Split(SubSeq(s, i + 1, Len(s)), sep)

\* sep.join(parts)
RECURSIVE Join(_, _)
Join(parts, sep) ==
    IF parts = <<>> THEN <<>>
    ELSE IF Len(parts) = 1 THEN parts[1]
    ELSE parts[1] \o <<sep>> \o Join(Tail(parts), sep)

extract_original_filename(path) ==
    LET filename == Basename(path)
        parts == Split(filename, "_")
    IN  IF Len(parts) >= 4
        THEN Join(SubSeq(parts, 4, Len(parts)), "_")
        ELSE filename

ExtractOriginalFilename ==
    /\ sout = Idle
    /\ calls # <<>>
    /\ calls[1].err = OK
    /\ sout' = [op |-> "extract_original_filename",
                value |-> extract_original_filename(calls[1].path)]
    /\ UNCHANGED <<fname, dbVars, fileVars, pathVars, itemVars, relVars, rateVars>>

NextExtract ==
    \/ \E user_id \in UserIds, unique_id \in Tokens :
          /\ calls = <<>>
          /\ GeneratePrescriptionPath(user_id, fname, unique_id)
    \/ ExtractOriginalFilename

SpecExtract == InitName /\ [][NextExtract]_vars

(***************************************************************************)
(* Properties of the sequential callers (Spec)                             *)
(***************************************************************************)
\* The three sequential order transitions, and the blank texts among Texts.
Sequential ==
    { <<PLACED, CONFIRMED>>, <<CONFIRMED, SHIPPED>>, <<SHIPPED, DELIVERED>> }

BlankTexts == { <<>>, <<" ">> }

OrderValidated == last.op = "order"
OrderUpdateValidated == last.op = "order" /\ last.old # "none"
PrescriptionValidated == last.op = "prescription"
PrescriptionUpdateValidated == last.op = "prescription" /\ last.old # "none"

\* C1: for a persisted order, a status change gets an error on 'status' unless
\* it is PLACED->CONFIRMED, CONFIRMED->SHIPPED or SHIPPED->DELIVERED; with the
\* other fields valid it is accepted exactly for those three; an update that
\* keeps the status never gets a 'status' error; a rejected update leaves the
\* persisted status as it was.
C1_OrderTransitions ==
    OrderUpdateValidated =>
        LET old == last.old
            new == last.inst.status
            othersOk ==
                /\ presc[last.inst.prescription].status = VERIFIED
                /\ new \in {SHIPPED, DELIVERED}
                      => last.inst.tracking_number \notin BlankTexts
        IN  /\ old # new =>
                 ("status" \in last.errors <=> <<old, new>> \notin Sequential)
            /\ old = new => "status" \notin last.errors
            /\ (old # new /\ othersOk) =>
                 (last.saved <=> <<old, new>> \in Sequential)
            /\ orders[last.pk] = (IF last.saved THEN last.inst ELSE orders[last.pk])
            /\ ~last.saved => orders[last.pk].status = old

C1_Witness ==
    /\ OrderUpdateValidated
    /\ last.old = CONFIRMED
    /\ last.inst.status = DELIVERED
    /\ last.errors = {"status"}

\* C2: order validation, on create and on update, has an error on
\* 'prescription' exactly when the referenced prescription is not VERIFIED,
\* whatever the transition and tracking-number checks find.
C2_PrescriptionMustBeVerified ==
    OrderValidated =>
        ("prescription" \in last.errors
            <=> presc[last.inst.prescription].status
                    \in {PENDING_VERIFICATION, REJECTED})

C2_Witness ==
    /\ OrderUpdateValidated
    /\ last.errors = {"prescription", "status", "tracking_number"}

\* C3: every persisted order references a prescription whose status is
\* VERIFIED.
C3_OrdersKeepVerifiedPrescription ==
    \A o \in OrderIds :
        orders[o] # NoRow => presc[orders[o].prescription].status = VERIFIED

\* C4: for a persisted prescription, PENDING->VERIFIED never gets a 'status'
\* error and is accepted when the other fields are valid; PENDING->REJECTED is
\* accepted exactly when the reason is non-blank (path valid);
\* VERIFIED->PENDING and REJECTED->PENDING always get a 'status' error and
\* change nothing.
C4_PrescriptionTransitions ==
    PrescriptionUpdateValidated =>
        LET old == last.old
            new == last.inst.status
            blank == last.inst.rejection_reason \in BlankTexts
            pathOk == last.inst.prescription_image_path \in 1..MaxPathLen
        IN  /\ (old = PENDING_VERIFICATION /\ new = VERIFIED) =>
                 /\ "status" \notin last.errors
                 /\ last.saved <=> (pathOk /\ blank)
            /\ (old = PENDING_VERIFICATION /\ new = REJECTED) =>
                 /\ "status" \notin last.errors
                 /\ last.saved <=> (pathOk /\ ~blank)
            /\ (old \in {VERIFIED, REJECTED} /\ new = PENDING_VERIFICATION) =>
                 /\ "status" \in last.errors
                 /\ ~last.saved
                 /\ presc[last.pk].status = old

C4_Witness ==
    /\ PrescriptionUpdateValidated
    /\ last.old = VERIFIED
    /\ last.inst.status = PENDING_VERIFICATION
    /\ last.errors = {"status"}

\* C5: once a persisted prescription is VERIFIED or REJECTED, no validated
\* update that changes its status is accepted.
C5_TerminalStatuses ==
    (PrescriptionUpdateValidated
        /\ last.old \in {VERIFIED, REJECTED}
        /\ last.inst.status # last.old) => ~last.saved

\* C6: prescription validation has an error on 'rejection_reason' exactly when
\* (status = REJECTED) and (reason non-blank) disagree, and every persisted
\* prescription has a non-blank reason exactly when it is REJECTED.
C6_RejectionReason ==
    /\ PrescriptionValidated =>
         ("rejection_reason" \in last.errors
             <=> ((last.inst.status = REJECTED)
                     <=> (last.inst.rejection_reason \in BlankTexts)))
    /\ \A p \in PrescriptionIds :
         presc[p] # NoRow =>
            ((presc[p].rejection_reason \notin BlankTexts)
                <=> presc[p].status = REJECTED)

C6_Witness ==
    /\ PrescriptionUpdateValidated
    /\ last.old = PENDING_VERIFICATION
    /\ last.inst.status = VERIFIED
    /\ last.inst.rejection_reason \notin BlankTexts
    /\ "rejection_reason" \in last.errors

\* C7: order validation has an error on 'tracking_number' exactly when the
\* status is SHIPPED or DELIVERED and the tracking number is blank, whatever
\* the transition check finds; every persisted SHIPPED or DELIVERED order has
\* a non-blank tracking number.
C7_TrackingNumber ==
    /\ OrderValidated =>
         ("tracking_number" \in last.errors
             <=> (last.inst.status \in {SHIPPED, DELIVERED}
                    /\ last.inst.tracking_number \in BlankTexts))
    /\ \A o \in OrderIds :
         (orders[o] # NoRow /\ orders[o].status \in {SHIPPED, DELIVERED})
            => orders[o].tracking_number \notin BlankTexts

C7_Witness ==
    /\ OrderUpdateValidated
    /\ last.inst.status = DELIVERED
    /\ last.inst.tracking_number = <<" ">>
    /\ last.errors = {"status", "tracking_number"}

(***************************************************************************)
(* Properties of the concurrent updaters (SpecConc)                        *)
(***************************************************************************)
\* C8: under concurrent validate-then-save updaters, every change of a
\* persisted status is a transition the entity's rule permits: an order moves
\* one step forward, a prescription never returns to PENDING_VERIFICATION.
C8_PersistedChangesArePermitted ==
    [][ /\ \A o \in OrderIds :
             orders'[o].status # orders[o].status
                => <<orders[o].status, orders'[o].status>> \in Sequential
        /\ \A p \in PrescriptionIds :
             presc'[p].status # presc[p].status
                => presc'[p].status # PENDING_VERIFICATION ]_vars

(***************************************************************************)
(* Properties of the upload validation (SpecFile)                          *)
(***************************************************************************)
PipelineCalled == res.op = "validate_prescription_file"

\* The error each stage raises on the file when run on its own (OK = passes).
StageErrors ==
    << (CHOOSE r \in validate_file_size(file, 0, None) : TRUE).err,
       (CHOOSE r \in validate_file_extension(file, 0) : TRUE).err,
       (CHOOSE r \in validate_mime_type(file, 0) : TRUE).err,
       (CHOOSE r \in validate_file_integrity(file, 0) : TRUE).err >>

FailingStages == {i \in 1..4 : StageErrors[i] # OK}

FirstFailing == CHOOSE i \in FailingStages : \A j \in FailingStages : i <= j

\* C9: validate_prescription_file runs size, extension, MIME, integrity in
\* that order, raises the error of the first failing stage having run no later
\* stage, and returns normally exactly when all four pass.
C9_FailFastPipeline ==
    PipelineCalled =>
        /\ res.err = OK <=> FailingStages = {}
        /\ FailingStages = {} => res.ran = Stages
        /\ FailingStages # {} =>
             /\ res.err = StageErrors[FirstFailing]
             /\ res.ran = SubSeq(Stages, 1, FirstFailing)

C9_Witness ==
    /\ PipelineCalled
    /\ res.err = "Possible MIME type spoofing detected"
    /\ res.ran = <<"size", "extension", "mime">>
    /\ 4 \in FailingStages

\* C10: after validate_prescription_file, and after each single validator,
\* has finished (returned or raised), the stream is at offset zero.
C10_StreamRewound == res # Idle => pos = 0

\* The extension validate_mime_type looks up, and whether the last call was
\* the given validator.
MimeExt == Lower(Splitext(Lower(file.name))[2])
Sniffed == Magic(file.content)

C12_FileSizeBounds ==
    res.op = "validate_file_size" =>
        LET max == IF res.max_size_mb = None THEN 10485760
                   ELSE res.max_size_mb * 1048576
        IN  /\ file.size = 0 <=> res.err = "File is empty"
            /\ file.size > max
                  <=> res.err = "File size exceeds maximum allowed size"
            /\ (1 <= file.size /\ file.size <= max) <=> res.err = OK

C12_Witness ==
    /\ res.op = "validate_file_size"
    /\ res.max_size_mb = 5
    /\ file.size = 5242880
    /\ res.err = OK

(***************************************************************************)
(* Properties of the storage paths (SpecPath) and file names (SpecName)    *)
(***************************************************************************)
\* The calls that returned a path, and the sanitized name of a call.
Returned == { i \in 1..Len(calls) : calls[i].err = OK }
Sanitized(i) == sanitize_filename(calls[i].filename)
PrefixOf(i) ==
    <<"p", "r", "e", "s", "c", "r", "i", "p", "t", "i", "o", "n", "s", "/">>
        \o Str(calls[i].user_id) \o <<"/">> \o Strftime(calls[i].now)
        \o <<"_">> \o calls[i].unique_id \o <<"_">>

\* C13 as stated: any two calls to generate_prescription_path return
\* different paths.
C13_AllPathsDiffer ==
    \A i \in Returned, j \in Returned :
        i # j => calls[i].path # calls[j].path

\* C13 (amended): two calls return different paths whenever they differ in
\* owner id, in the second of the clock or in the random token; two calls with
\* the same owner id, file name, second and token return the same path, so
\* calls with equal inputs in one second differ exactly when their tokens
\* differ.
C13_PathsDifferByToken ==
    \A i \in Returned, j \in Returned :
        /\ (calls[i].user_id # calls[j].user_id
               \/ calls[i].now # calls[j].now
               \/ calls[i].unique_id # calls[j].unique_id)
             => calls[i].path # calls[j].path
        /\ (calls[i].user_id = calls[j].user_id
               /\ calls[i].now = calls[j].now
               /\ calls[i].unique_id = calls[j].unique_id
               /\ calls[i].filename = calls[j].filename)
             => calls[i].path = calls[j].path

C13_Witness ==
    /\ Len(calls) = 2
    /\ Returned = {1, 2}
    /\ calls[1].user_id = calls[2].user_id
    /\ calls[1].filename = calls[2].filename
    /\ calls[1].now = calls[2].now
    /\ calls[1].unique_id # calls[2].unique_id
    /\ calls[1].path # calls[2].path

\* C14: a call with owner_id < 0 fails with ValueError and returns no path; a
\* call with owner_id >= 0 returns
\* prescriptions/{owner_id}/{timestamp}_{token}_{sanitize_filename(filename)}
\* with a 15-character timestamp and an 8-character token, an empty file name
\* giving the name 'file'.
C14_PathFormat ==
    \A i \in 1..Len(calls) :
        /\ calls[i].user_id < 0 <=> calls[i].err = "ValueError"
        /\ calls[i].user_id < 0 => calls[i].path = <<>>
        /\ calls[i].user_id >= 0 =>
              /\ calls[i].path = PrefixOf(i) \o Sanitized(i)
              /\ Len(Strftime(calls[i].now)) = 15
              /\ Len(calls[i].unique_id) = 8
              /\ calls[i].filename = <<>> =>
                    EndsWith(calls[i].path, <<"_", "f", "i", "l", "e">>)

\* C15: the result of sanitize_filename never contains '..', '/' or '\'.
C15_NoTraversalSequences ==
    sout.op = "sanitize_filename" =>
        \A i \in 1..Len(sout.value) :
            /\ sout.value[i] \notin {"/", "\\"}
            /\ i < Len(sout.value) =>
                  ~(sout.value[i] = "." /\ sout.value[i + 1] = ".")

\* C16: the result of sanitize_filename contains no space, and only ASCII
\* letters, digits, '_' and '-' before the extension's dot.
C16_OnlySafeCharacters ==
    sout.op = "sanitize_filename" =>
        LET dot == RFind(sout.value, ".")
        IN  \A i \in 1..Len(sout.value) :
                /\ sout.value[i] # " "
                /\ (dot = 0 \/ i < dot) =>
                      sout.value[i]
                         \in Range(LowerCase) \cup Range(UpperCase)
                                \cup Range(Digit) \cup {"_", "-"}

\* C17: the result of sanitize_filename is at most 100 characters long, its
\* base name is at most 50 characters long, and it ends with the extension of
\* the original file name in lowercase.
C17_LengthsAndExtension ==
    sout.op = "sanitize_filename" =>
        /\ Len(sout.value) <= 100
        /\ Len(Splitext(sout.value)[1]) <= 50
        /\ EndsWith(sout.value, Lower(Splitext(fname)[2]))

\* C18: every returned path is at most 1024 characters long, and where the
\* untruncated path would be longer the file name is cut so that the path
\* still ends with its extension.
C18_PathWithinLimit ==
    \A i \in Returned :
        /\ Len(calls[i].path) <= 1024
        /\ Len(PrefixOf(i) \o Sanitized(i)) > 1024 =>
              /\ SubSeq(calls[i].path, 1, Len(PrefixOf(i))) = PrefixOf(i)
              /\ EndsWith(calls[i].path, Lower(Splitext(calls[i].filename)[2]))

(***************************************************************************)
(* Properties of the line items (SpecItem)                                 *)
(***************************************************************************)
\* A Decimal with at most two decimal places, in cents.
Cents(d) ==
    CASE d.exp = -2 -> d.coef
      [] d.exp = -1 -> d.coef * 10
      [] d.exp = 0 -> d.coef * 100

\* c added up n times
RECURSIVE SumOf(_, _)
SumOf(n, c) ==
    IF n = 0 THEN 0
    ELSE IF n = 1 THEN c
    ELSE SumOf(n \div 2, c) + SumOf(n - (n \div 2), c)

\* C19: for quantity q >= 1 and a unit price p >= 0.01 of two decimal places,
\* the subtotal read is q x p exactly (q times the price in cents, two decimal
\* places kept), and reading it neither stores it on the item nor changes the
\* item.
C19_SubtotalExact ==
    iout.op = "subtotal" =>
        /\ Cents(iout.value) = SumOf(item.quantity, Cents(item.unit_price))
        /\ iout.value.exp = -2
        /\ item = iout.item
        /\ DOMAIN item = {"quantity", "unit_price"}

C19_Witness ==
    /\ iout.op = "subtotal"
    /\ item.quantity = 3
    /\ item.unit_price = [coef |-> 1033, exp |-> -2]
    /\ iout.value = [coef |-> 3099, exp |-> -2]

\* C20: a new order is never given a 'status' error and is accepted, in any
\* of the four statuses, exactly when its prescription is VERIFIED and the
\* tracking number is non-blank for SHIPPED and DELIVERED; a new prescription
\* is never given a 'status' error and is accepted, in any of the three
\* statuses, exactly when its path is valid and it has a non-blank reason
\* exactly when REJECTED.
C20_NewRecordsSkipTransitionCheck ==
    /\ (last.op = "order" /\ last.old = "none") =>
          /\ "status" \notin last.errors
          /\ last.saved <=>
                /\ presc[last.inst.prescription].status = VERIFIED
                /\ last.inst.status \in {SHIPPED, DELIVERED}
                      => last.inst.tracking_number \notin BlankTexts
    /\ (last.op = "prescription" /\ last.old = "none") =>
          /\ "status" \notin last.errors
          /\ last.saved <=>
                /\ last.inst.prescription_image_path \in 1..MaxPathLen
                /\ last.inst.status = REJECTED
                      <=> last.inst.rejection_reason \notin BlankTexts

C20_Witness ==
    /\ last.op = "order"
    /\ last.old = "none"
    /\ last.inst.status = DELIVERED
    /\ last.saved
    /\ \E o \in OrderIds : orders[o] # NoRow /\ orders[o].status = DELIVERED

(***************************************************************************)
(* Properties of verification (SpecVerify)                                 *)
(***************************************************************************)
\* C21 as stated: validation of a prescription in status VERIFIED with no
\* verifier or no verified_at fails.
C21_VerifiedNeedsVerifier ==
    (PrescriptionValidated
        /\ last.inst.status = VERIFIED
        /\ (last.inst.verifier = None \/ last.inst.verified_at = None))
      => ~last.saved

\* C21 (amended): verifier and verified_at are optional and validation never
\* consults them: a prescription validated in status VERIFIED, new or updated
\* from PENDING_VERIFICATION, is accepted exactly when its path is valid and
\* its rejection reason is blank, with or without a verifier and a
\* verified_at, and is persisted with the values given.
C21_VerifierOptional ==
    PrescriptionValidated =>
        /\ last.errors \subseteq
               {"prescription_image_path", "rejection_reason", "status"}
        /\ (last.inst.status = VERIFIED
               /\ last.old \in {"none", PENDING_VERIFICATION}) =>
              /\ last.saved <=>
                    /\ last.inst.prescription_image_path \in 1..MaxPathLen
                    /\ last.inst.rejection_reason \in BlankTexts
              /\ last.saved =>
                    \E p \in PrescriptionIds : presc[p] = last.inst

C21_Witness ==
    /\ PrescriptionUpdateValidated
    /\ last.old = PENDING_VERIFICATION
    /\ last.inst.status = VERIFIED
    /\ last.inst.verifier = None
    /\ last.inst.verified_at = None
    /\ last.saved

(***************************************************************************)
(* Properties of save() (SpecSave)                                         *)
(***************************************************************************)
\* C22: save() ensures validation has run: no record for which clean() raises
\* (illegal transition, missing tracking number, unverified prescription,
\* rejection-reason mismatch, quantity below 1) is persisted by save().
C22_SaveValidates ==
    (last.op = "save" /\ last.saved) => last.clean = {}

(***************************************************************************)
(* Properties of deletion (SpecDelete)                                     *)
(***************************************************************************)
DeleteDone == last.op = "delete"

Refused == DeleteDone /\ last.protected # {}

\* The rows of last.before[table] whose `field` is the deleted row.
ReferencedBefore(table, field) ==
    {k \in DOMAIN last.before[table] :
        /\ last.before[table][k] # NoRow
        /\ last.before[table][k][field] = last.pk}

\* C23: deleting a prescription referenced by an order, a pharmacy that has
\* orders, or a medicine referenced by an order item is refused and leaves every
\* record unchanged; so every persisted order references an existing
\* prescription and pharmacy, and every persisted item an existing medicine and
\* order.
C23_ProtectedDeletes ==
    /\ \A o \in Rows(orders) :
          /\ presc[orders[o].prescription] # NoRow
          /\ orders[o].pharmacy \in pharmacies
    /\ \A i \in Rows(items) :
          /\ orders[items[i].order] # NoRow
          /\ medicines[items[i].medicine] # NoRow
    /\ DeleteDone =>
          /\ (last.model = "prescription"
                /\ ReferencedBefore("orders", "prescription") # {}) => Refused
          /\ (last.model = "pharmacy"
                /\ ReferencedBefore("orders", "pharmacy") # {}) => Refused
          /\ (last.model = "medicine"
                /\ ReferencedBefore("items", "medicine") # {}) => Refused
          /\ Refused => Tables = last.before

C23_Witness ==
    /\ Refused
    /\ last.model = "prescription"
    /\ ReferencedBefore("orders", "prescription") # {}
    /\ Rows(items) # {}

\* C24: deleting a patient always succeeds and removes the patient, every
\* prescription the patient owns and every order the patient placed with its
\* items, also when one of the patient's prescriptions is referenced by an
\* order.
C24_PatientDeleteCascades ==
    (DeleteDone /\ last.model = "user") =>
        /\ ~Refused
        /\ last.pk \notin users
        /\ related_objects(presc, "patient", {last.pk}) = {}
        /\ related_objects(orders, "patient", {last.pk}) = {}
        /\ \A i \in Rows(items) : orders[items[i].order] # NoRow

(***************************************************************************)
(* Properties of the rate limiter (SpecRate)                               *)
(***************************************************************************)
Answering == resp.op = "call"

Limit(key) == RATE_LIMITS[key[1]]

\* C25: per rate-limited path and client IP, once the limit (5 for the token
\* path, 10 for the refresh path) has been passed to the view within the
\* 60-second window, every further request in the window is answered 429 with
\* Retry-After and not passed to the view; other paths are never counted or
\* rejected; the counter of a (path, IP) pair counts that pair's requests only.
C25_LimitPerPathAndClient ==
    /\ Len(served.ages) <= Limit(served.key)
    /\ \A k \in DOMAIN cache : k[1] \in DOMAIN RATE_LIMITS
    /\ served.key \in DOMAIN cache => cache[served.key].value = served.streak
    /\ served.key \notin DOMAIN cache => served.ages = <<>>
    /\ Answering =>
          /\ (resp.watched /\ resp.recent >= Limit(served.key)) => ~resp.passed
          /\ ~resp.passed =>
                /\ resp.status = 429
                /\ resp.retry_after = <<"6", "0">>
                /\ resp.request.path \in DOMAIN RATE_LIMITS
          /\ (resp.watched /\ ~resp.passed) => resp.streak >= Limit(served.key)

C25_Witness ==
    /\ Answering
    /\ resp.watched
    /\ resp.request.path = RefreshPath
    /\ resp.recent = 10
    /\ ~resp.passed
    /\ <<TokenPath, "10.0.0.2">> \in DOMAIN cache
    /\ cache_get(cache, <<TokenPath, "10.0.0.1">>, 0) = 5

\* C26: the limit resets after the window: a request made more than 60 seconds
\* after its client's last request passed to the view on that path (or with
\* none before) is passed to the view, whatever 429 answers were given in
\* between.
C26_LimitResets ==
    (Answering /\ resp.watched /\ resp.recent = 0) => resp.passed

C26_Witness ==
    /\ Answering
    /\ resp.watched
    /\ resp.recent = 0
    /\ resp.denied
    /\ resp.passed

(***************************************************************************)
(* Error reporting of the sequential callers (Spec)                        *)
(***************************************************************************)
\* The field rules a validated order violates, stated on the outcome.
ViolatedOrderRules ==
    {f \in {"prescription"} : presc[last.inst.prescription].status # VERIFIED}
      \cup {f \in {"status"} :
               /\ last.old \notin {"none", last.inst.status}
               /\ <<last.old, last.inst.status>> \notin Sequential}
      \cup {f \in {"tracking_number"} :
               /\ last.inst.status \in {SHIPPED, DELIVERED}
               /\ Strip(last.inst.tracking_number) = <<>>}

\* The field rules a validated prescription violates.
ViolatedPrescriptionRules ==
    {f \in {"prescription_image_path"} :
        last.inst.prescription_image_path \notin 1..MaxPathLen}
      \cup {f \in {"rejection_reason"} :
               (last.inst.status = REJECTED)
                  # (Strip(last.inst.rejection_reason) # <<>>)}
      \cup {f \in {"status"} :
               /\ last.old \in {VERIFIED, REJECTED}
               /\ last.inst.status = PENDING_VERIFICATION}

AllErrorsReported ==
    /\ OrderValidated => last.errors = ViolatedOrderRules
    /\ PrescriptionValidated => last.errors = ViolatedPrescriptionRules

FailureChangesNothing ==
    (last' # Idle /\ last'.errors # {}) => UNCHANGED <<presc, orders>>

\* C27: validation reports all violated field rules together, for an order
\* ('prescription', 'status', 'tracking_number') and for a prescription
\* ('prescription_image_path', 'rejection_reason', 'status'), and a failed
\* validation changes no persisted row.
C27_AllErrorsTogether == []AllErrorsReported /\ [][FailureChangesNothing]_vars

C27_Witness ==
    /\ PrescriptionUpdateValidated
    /\ last.errors = {"prescription_image_path", "rejection_reason", "status"}
    /\ Rows(orders) # {}

(***************************************************************************)
(* Properties of concurrent rate limiting (SpecRateConc)                   *)
(***************************************************************************)
\* C28: under concurrent requests of one client to one rate-limited path, the
\* number of requests passed to the view within one window never exceeds the
\* limit.
C28_ConcurrentLimit ==
    Cardinality({r \in DOMAIN reqs : reqs[r].pc = "view"}) <= RATE_LIMITS[TokenPath]

\* The update of persisted order o to the next status in sequence, with a
\* tracking number supplied.
NextStep(o) ==
    [orders[o] EXCEPT
        !.status = CHOOSE s \in OrderStatus : <<orders[o].status, s>> \in Sequential,
        !.tracking_number = <<"o", "k">>]

\* C29: orders cannot get stuck: in every state reached through validated order
\* and prescription updates, for every persisted order that is not DELIVERED
\* the update to the next sequential status, with a non-blank tracking number,
\* passes validation.
C29_OrdersNeverStuck ==
    \A o \in OrderIds :
        (orders[o] # NoRow /\ orders[o].status # DELIVERED) =>
            OrderClean(NextStep(o), o, orders, presc) = {}

(***************************************************************************)
(* Properties of extract_original_filename (SpecExtract)                   *)
(***************************************************************************)
\* C30: extract_original_filename applied to the path that
\* generate_prescription_path returns for a file name gives back the file-name
\* portion of the path: sanitize_filename of the name when the path was not
\* cut to 1024 characters, underscores in the name included.
C30_ExtractRoundTrip ==
    (sout.op = "extract_original_filename"
        /\ calls[1].path = PrefixOf(1) \o Sanitized(1))
      => sout.value = Sanitized(1)

====
